---- MODULE Spec2Model ----
(***************************************************************************)
(* The on-chip-loader (OCL) flash driver of OpenOCD: ocl_probe, ocl_erase, *)
(* ocl_write and ocl_auto_probe talking to a resident loader over the      *)
(* EmbeddedICE debug communication channel (send / handshake / receive).   *)
(* Each driver entry point is one action; the link and the loader are the  *)
(* environment, drawn from bounded sets.                                   *)
(***************************************************************************)
EXTENDS Integers, Sequences, FiniteSets, TLC

VARIABLES bank, ocl, pc, op, gpio, gop, greq

vars == <<bank, ocl, pc, op, gpio, gop, greq>>

(* the flash driver's variables and the GPIO adapter driver's variables *)
oclvars == <<bank, ocl, pc, op>>

gpiovars == <<gpio, gop, greq>>

(***************************************************************************)
(* Bounds of the model.                                                    *)
(***************************************************************************)
MaxSize == 2
MaxSectors == 2
MaxBufUnits == 4
MaxBufAlign == 4
MaxOffset == 3
MaxCount == 6
MaxIter == 3
MaxFaultCall == 6
MaxLevel == 1
FirstPin == 4

(***************************************************************************)
(* Program constants.  Error codes and the OCL opcodes come from headers   *)
(* of the project (log.h, target.h, flash.h, ocl.h).                       *)
(***************************************************************************)
ERROR_OK == 0
ERROR_FAIL == 0 - 4
ERROR_TARGET_TIMEOUT == 0 - 302
ERROR_TARGET_NOT_RUNNING == 0 - 310
ERROR_FLASH_BANK_INVALID == 0 - 900
ERROR_FLASH_OPERATION_FAILED == 0 - 902
ERROR_FLASH_BANK_NOT_PROBED == 0 - 907

W32(hi, lo) == <<lo % 256, lo \div 256, hi % 256, hi \div 256>>

OCL_FLASH_BLOCK == W32(3323, 0)
OCL_ERASE_BLOCK == W32(3307, 0)
OCL_ERASE_ALL == W32(3306, 0)
OCL_PROBE == W32(3262, 0)
OCL_CMD_DONE == W32(2765, 0)
OCL_CMD_ERR == W32(2766, 0)
OCL_CHKS_INIT == W32(49408, 52492)

TARGET_RUNNING == "TARGET_RUNNING"
TARGET_HALTED == "TARGET_HALTED"

(***************************************************************************)
(* uint32_t words.  A word is the tuple of its four byte lanes, lane k     *)
(* (k = 1..4) holding bits 8(k-1) .. 8(k-1)+7, so that all 32 bits are     *)
(* kept.  WordOfInt is the conversion of a C int (two's complement).       *)
(***************************************************************************)
Lanes == 1..4

WordOfInt(n) ==
    <<n % 256, (n \div 256) % 256, (n \div 65536) % 256,
      (n \div 16777216) % 256>>

WordVal(w) == w[1] + 256 * w[2] + 65536 * w[3] + 16777216 * w[4]

WORD_FF == <<255, 255, 255, 255>>

RECURSIVE AndBits(_, _)
AndBits(a, b) ==
    IF a = 0 \/ b = 0 THEN 0
    ELSE (a % 2) * (b % 2) + 2 * AndBits(a \div 2, b \div 2)

And8(a, b) ==
    IF a = 255 THEN b ELSE IF b = 255 THEN a ELSE AndBits(a, b)

RECURSIVE XorBits(_, _)
XorBits(a, b) ==
    IF a = 0 THEN b ELSE IF b = 0 THEN a
    ELSE ((a + b) % 2) + 2 * XorBits(a \div 2, b \div 2)

Xor8(a, b) ==
    IF a = b THEN 0 ELSE IF a = 255 THEN 255 - b ELSE IF b = 255 THEN 255 - a
    ELSE XorBits(a, b)

BitAnd(v, w) == [k \in Lanes |-> And8(v[k], w[k])]

BitXor(v, w) == [k \in Lanes |-> Xor8(v[k], w[k])]

BitOr(v, w) == [k \in Lanes |-> v[k] + w[k] - And8(v[k], w[k])]

(* faulty variant of ShiftToLane: byte lanes in big-endian order *)
ShiftToLane_BigEndian(b, lane) ==
    [k \in Lanes |-> IF k = 5 - lane THEN b ELSE 0]

(* b << 8 * (lane - 1) for a byte b *)
ShiftToLane(b, lane) == [k \in Lanes |-> IF k = lane THEN b ELSE 0]

(* 0xffffff00, 0xffff00ff, 0xff00ffff, 0x00ffffff *)
LaneMask(lane) == [k \in Lanes |-> IF k = lane THEN 0 ELSE 255]

(* faulty variant of NotOk: the result of the transport call is dropped *)
NotOk_Dropped(x) == 0

(* value of the C expression (x != ERROR_OK) *)
NotOk(x) == IF x # ERROR_OK THEN 1 ELSE 0

(***************************************************************************)
(* The transport (EmbeddedICE DCC).  env.fails is the set of call numbers  *)
(* of the current operation at which the link fails; a handshake fails by  *)
(* timing out, a send or receive with a generic error.                     *)
(***************************************************************************)
TransportResult(env, n, fn) ==
    IF n \in env.fails
    THEN (IF fn = "handshake" THEN ERROR_TARGET_TIMEOUT ELSE ERROR_FAIL)
    ELSE ERROR_OK

embeddedice_send(env, n, words) ==
    [fn |-> "send", words |-> words, timeout |-> 0,
     ret |-> TransportResult(env, n, "send")]

embeddedice_handshake(env, n, timeout) ==
    [fn |-> "handshake", words |-> <<>>, timeout |-> timeout,
     ret |-> TransportResult(env, n, "handshake")]

embeddedice_receive(env, n, word) ==
    [fn |-> "receive",
     words |-> IF n \in env.fails THEN <<>> ELSE <<word>>,
     timeout |-> 0,
     ret |-> TransportResult(env, n, "receive")]

(***************************************************************************)
(* ocl_flash_bank_command: the state after the bank is configured.         *)
(***************************************************************************)
NoOp == [fn |-> "none"]

ocl_flash_bank_command ==
    /\ bank = [base |-> 0, size |-> 0, num_sectors |-> 0, sectors |-> <<>>]
    /\ ocl = [buflen |-> 0, bufalign |-> 1]
    /\ pc = "idle"
    /\ op = NoOp

(***************************************************************************)
(* ocl_probe.                                                              *)
(***************************************************************************)
ProbeReturn(retval, calls, b, o) ==
    [retval |-> retval, calls |-> calls, bank |-> b, ocl |-> o]

(* faulty variant of GeomRead: the handshake uses the 1 s timeout *)
GeomRead_Bounded(env, n, calls, word) ==
    LET hs == embeddedice_handshake(env, n, 1000)
        rx == embeddedice_receive(env, n + 1, word)
    IN  IF NotOk(hs.ret) # 0
        THEN [retval |-> NotOk(hs.ret), calls |-> Append(calls, hs), word |-> WordOfInt(0)]
        ELSE [retval |-> NotOk(rx.ret), calls |-> calls \o <<hs, rx>>,
              word |-> word]

(* one geometry word: handshake with timeout 0, then receive, joined by || *)
GeomRead(env, n, calls, word) ==
    LET hs == embeddedice_handshake(env, n, 0)
        rx == embeddedice_receive(env, n + 1, word)
    IN  IF NotOk(hs.ret) # 0
        THEN [retval |-> NotOk(hs.ret), calls |-> Append(calls, hs), word |-> WordOfInt(0)]
        ELSE [retval |-> NotOk(rx.ret), calls |-> calls \o <<hs, rx>>,
              word |-> word]

(* realloc keeps the old entries that fit; entries added are indeterminate *)
Realloc(old, n, garbage) ==
    IF n = 0 THEN <<>>
    ELSE [i \in 1..n |-> IF i <= Len(old) THEN old[i] ELSE garbage]

SectorTable(size, num_sectors) ==
    LET sectsize == size \div num_sectors
    IN  [i \in 1..num_sectors |->
            [offset |-> (i - 1) * sectsize, size |-> sectsize,
             is_erased |-> 0 - 1, is_protected |-> 0 - 1]]

(* faulty variant of ProbeValidate: buflen is not required to be a *)
(* multiple of 4                                                    *)
ProbeValidate_AnyLength(b, o, calls, garbage) ==
    LET b1 == [b EXCEPT !.sectors = Realloc(b.sectors, b.num_sectors, garbage)]
        b2 == [b1 EXCEPT !.sectors = SectorTable(b.size, b.num_sectors)]
        o1 == IF o.bufalign = 0 THEN [o EXCEPT !.bufalign = 1] ELSE o
    IN  IF b.num_sectors = 0
        THEN ProbeReturn(ERROR_FLASH_BANK_INVALID, calls, b1, o)
        ELSE IF b.size % b.num_sectors # 0
        THEN ProbeReturn(ERROR_FLASH_BANK_INVALID, calls, b1, o)
        ELSE IF o1.buflen = 0
        THEN ProbeReturn(ERROR_FLASH_BANK_INVALID, calls, b2, o1)
        ELSE IF o1.bufalign > o1.buflen \/ o1.buflen % o1.bufalign # 0
        THEN ProbeReturn(ERROR_FLASH_BANK_INVALID, calls, b2, o1)
        ELSE ProbeReturn(ERROR_OK, calls, b2, o1)

(* lines 293-333: b and o already hold the four received words *)
ProbeValidate(b, o, calls, garbage) ==
    LET b1 == [b EXCEPT !.sectors = Realloc(b.sectors, b.num_sectors, garbage)]
        b2 == [b1 EXCEPT !.sectors = SectorTable(b.size, b.num_sectors)]
        o1 == IF o.bufalign = 0 THEN [o EXCEPT !.bufalign = 1] ELSE o
    IN  IF b.num_sectors = 0
        THEN ProbeReturn(ERROR_FLASH_BANK_INVALID, calls, b1, o)
        ELSE IF b.size % b.num_sectors # 0
        THEN ProbeReturn(ERROR_FLASH_BANK_INVALID, calls, b1, o)
        ELSE IF o1.buflen = 0
        THEN ProbeReturn(ERROR_FLASH_BANK_INVALID, calls, b2, o1)
        ELSE IF o1.bufalign > o1.buflen \/ o1.buflen % o1.bufalign # 0
        THEN ProbeReturn(ERROR_FLASH_BANK_INVALID, calls, b2, o1)
        ELSE IF o1.buflen % 4 # 0
        THEN ProbeReturn(ERROR_FLASH_BANK_INVALID, calls, b2, o1)
        ELSE ProbeReturn(ERROR_OK, calls, b2, o1)

ocl_probe(b, o, env) ==
    LET c1 == embeddedice_receive(env, 1, WordOfInt(0))
        c2 == embeddedice_send(env, 2, <<OCL_PROBE>>)
        c3 == embeddedice_handshake(env, 3, 1000)
        c4 == embeddedice_receive(env, 4, env.resp)
        g1 == GeomRead(env, 5, <<c1, c2, c3, c4>>, WordOfInt(env.geom[1]))
        b1 == [b EXCEPT !.base = WordVal(g1.word)]
        g2 == GeomRead(env, 7, g1.calls, WordOfInt(env.geom[2]))
        b2 == [b1 EXCEPT !.size = WordVal(g2.word)]
        g3 == GeomRead(env, 9, g2.calls, WordOfInt(env.geom[3]))
        b3 == [b2 EXCEPT !.num_sectors = WordVal(g3.word)]
        g4 == GeomRead(env, 11, g3.calls, WordOfInt(env.geom[4]))
        o4 == [buflen |-> WordVal(BitAnd(g4.word, W32(0, 65535))),
               bufalign |-> WordVal(g4.word) \div 65536]
    IN  IF NotOk(c2.ret) # 0
        THEN ProbeReturn(NotOk(c2.ret), <<c1, c2>>, b, o)
        ELSE IF NotOk(c3.ret) # 0
        THEN ProbeReturn(NotOk(c3.ret), <<c1, c2, c3>>, b, o)
        ELSE IF NotOk(c4.ret) # 0
        THEN ProbeReturn(NotOk(c4.ret), <<c1, c2, c3, c4>>, b, o)
        ELSE IF env.resp # OCL_CMD_DONE
        THEN ProbeReturn(ERROR_FLASH_OPERATION_FAILED, <<c1, c2, c3, c4>>, b, o)
        ELSE IF g1.retval # 0 THEN ProbeReturn(g1.retval, g1.calls, b, o)
        ELSE IF g2.retval # 0 THEN ProbeReturn(g2.retval, g2.calls, b1, o)
        ELSE IF g3.retval # 0 THEN ProbeReturn(g3.retval, g3.calls, b2, o)
        ELSE IF g4.retval # 0 THEN ProbeReturn(g4.retval, g4.calls, b3, o)
        ELSE ProbeValidate(b3, o4, g4.calls, env.garbage)

(***************************************************************************)
(* ocl_erase.  tstate is bank->target->state as read by the call.          *)
(***************************************************************************)
OpReturn(retval, calls) == [retval |-> retval, calls |-> calls]

(* faulty variant of ErasePacket: the last sector is taken to be *)
(* num_sectors                                                   *)
ErasePacket_OffByOne(b, first, last) ==
    IF first = 0 /\ last = b.num_sectors
    THEN <<OCL_ERASE_ALL>>
    ELSE <<OCL_ERASE_BLOCK, WordOfInt(first), WordOfInt(last)>>

ErasePacket(b, first, last) ==
    IF first = 0 /\ last = b.num_sectors - 1
    THEN <<OCL_ERASE_ALL>>
    ELSE <<OCL_ERASE_BLOCK, WordOfInt(first), WordOfInt(last)>>

(* faulty variant of ocl_erase: the response word is not compared *)
ocl_erase_AnyResponse(b, o, tstate, first, last, env) ==
    LET c1 == embeddedice_send(env, 1, ErasePacket(b, first, last))
        c2 == embeddedice_handshake(env, 2, 1000)
        c3 == embeddedice_receive(env, 3, env.resp)
    IN  IF b.num_sectors = 0
        THEN OpReturn(ERROR_FLASH_BANK_NOT_PROBED, <<>>)
        ELSE IF tstate # TARGET_RUNNING
        THEN OpReturn(ERROR_TARGET_NOT_RUNNING, <<>>)
        ELSE IF NotOk(c1.ret) # 0 THEN OpReturn(NotOk(c1.ret), <<c1>>)
        ELSE IF NotOk(c2.ret) # 0 THEN OpReturn(NotOk(c2.ret), <<c1, c2>>)
        ELSE IF NotOk(c3.ret) # 0 THEN OpReturn(NotOk(c3.ret), <<c1, c2, c3>>)
        ELSE OpReturn(ERROR_OK, <<c1, c2, c3>>)

(* faulty variant of ocl_erase: the handshake waits without a timeout *)
ocl_erase_Unbounded(b, o, tstate, first, last, env) ==
    LET c1 == embeddedice_send(env, 1, ErasePacket(b, first, last))
        c2 == embeddedice_handshake(env, 2, 0)
        c3 == embeddedice_receive(env, 3, env.resp)
    IN  IF b.num_sectors = 0
        THEN OpReturn(ERROR_FLASH_BANK_NOT_PROBED, <<>>)
        ELSE IF tstate # TARGET_RUNNING
        THEN OpReturn(ERROR_TARGET_NOT_RUNNING, <<>>)
        ELSE IF NotOk(c1.ret) # 0 THEN OpReturn(NotOk(c1.ret), <<c1>>)
        ELSE IF NotOk(c2.ret) # 0 THEN OpReturn(NotOk(c2.ret), <<c1, c2>>)
        ELSE IF NotOk(c3.ret) # 0 THEN OpReturn(NotOk(c3.ret), <<c1, c2, c3>>)
        ELSE IF env.resp # OCL_CMD_DONE
        THEN OpReturn(ERROR_FLASH_OPERATION_FAILED, <<c1, c2, c3>>)
        ELSE OpReturn(ERROR_OK, <<c1, c2, c3>>)

ocl_erase(b, o, tstate, first, last, env) ==
    LET c1 == embeddedice_send(env, 1, ErasePacket(b, first, last))
        c2 == embeddedice_handshake(env, 2, 1000)
        c3 == embeddedice_receive(env, 3, env.resp)
    IN  IF b.num_sectors = 0
        THEN OpReturn(ERROR_FLASH_BANK_NOT_PROBED, <<>>)
        ELSE IF tstate # TARGET_RUNNING
        THEN OpReturn(ERROR_TARGET_NOT_RUNNING, <<>>)
        ELSE IF NotOk(c1.ret) # 0 THEN OpReturn(NotOk(c1.ret), <<c1>>)
        ELSE IF NotOk(c2.ret) # 0 THEN OpReturn(NotOk(c2.ret), <<c1, c2>>)
        ELSE IF NotOk(c3.ret) # 0 THEN OpReturn(NotOk(c3.ret), <<c1, c2, c3>>)
        ELSE IF env.resp # OCL_CMD_DONE
        THEN OpReturn(ERROR_FLASH_OPERATION_FAILED, <<c1, c2, c3>>)
        ELSE OpReturn(ERROR_OK, <<c1, c2, c3>>)

(***************************************************************************)
(* ocl_write.                                                              *)
(***************************************************************************)
(* lines 158-161 *)
(* faulty variant of RunLen: a long run stops at the next alignment boundary *)
RunLen_ToBoundary(count, offset, o) ==
    IF count + (offset % o.bufalign) > o.buflen
    THEN o.bufalign - (offset % o.bufalign)
    ELSE count

(* faulty variant of RunLen: the position inside the buffer is ignored *)
RunLen_NoOffset(count, offset, o) ==
    IF count > o.buflen THEN o.buflen ELSE count

RunLen(count, offset, o) ==
    IF count + (offset % o.bufalign) > o.buflen
    THEN o.buflen - (offset % o.bufalign)
    ELSE count

(* one pass of the switch in the copy loop, lines 174-191 *)
PackByte(st, byte) ==
    LET lane == st.byteofs + 1
        word == BitAnd(st.cur, BitOr(ShiftToLane(byte, lane), LaneMask(lane)))
    IN  IF st.byteofs = 3
        THEN [words |-> Append(st.words, word), cur |-> WORD_FF, byteofs |-> 0,
              chksum |-> BitXor(st.chksum, word)]
        ELSE [st EXCEPT !.cur = word, !.byteofs = st.byteofs + 1]

RECURSIVE PackLoop(_, _, _, _)
PackLoop(st, buffer, pos, n) ==
    IF n <= 0 THEN st
    ELSE PackLoop(PackByte(st, buffer[pos]), buffer, pos + 1, n - 1)

(* faulty variant of PackBlock: the partly filled last word is sent but *)
(* not folded into the checksum                                         *)
PackBlock_TailUnsummed(buffer, pos, offset, runlen, o) ==
    LET st0 == [words |-> <<>>, cur |-> WORD_FF,
                byteofs |-> (offset % o.bufalign) % 4, chksum |-> OCL_CHKS_INIT]
        st1 == PackLoop(st0, buffer, pos, runlen)
        st2 == IF st1.byteofs # 0
               THEN [st1 EXCEPT !.words = Append(st1.words, st1.cur)]
               ELSE st1
    IN  <<BitOr(OCL_FLASH_BLOCK, WordOfInt(runlen)), WordOfInt(offset)>>
            \o st2.words \o <<st2.chksum>>

(* lines 163-198: the words of one flash-block packet *)
PackBlock(buffer, pos, offset, runlen, o) ==
    LET st0 == [words |-> <<>>, cur |-> WORD_FF,
                byteofs |-> (offset % o.bufalign) % 4, chksum |-> OCL_CHKS_INIT]
        st1 == PackLoop(st0, buffer, pos, runlen)
        st2 == IF st1.byteofs # 0
               THEN [st1 EXCEPT !.words = Append(st1.words, st1.cur),
                                !.chksum = BitXor(st1.chksum, st1.cur)]
               ELSE st1
    IN  <<BitOr(OCL_FLASH_BLOCK, WordOfInt(runlen)), WordOfInt(offset)>>
            \o st2.words \o <<st2.chksum>>

(* line 154: the number of words allocated for the staging buffer *)
AllocWords(o) == o.buflen \div 4 + 3

WriteReturn(retval, returned, w) ==
    [retval |-> retval, returned |-> returned, calls |-> w.calls,
     chunks |-> w.chunks, count |-> w.count, offset |-> w.offset]

(* the while loop, lines 156-232; w.n is the number of transport calls made *)
RECURSIVE WriteLoop(_, _, _, _)
WriteLoop(w, o, buffer, env) ==
    IF w.count = 0 THEN WriteReturn(ERROR_OK, TRUE, w)
    ELSE IF Len(w.chunks) = MaxIter THEN WriteReturn(ERROR_OK, FALSE, w)
    ELSE
    LET runlen == RunLen(w.count, w.offset, o)
        chunk == [offset |-> w.offset, runlen |-> runlen,
                  byteofs |-> (w.offset % o.bufalign) % 4]
        c1 == embeddedice_send(env, w.n + 1,
                               PackBlock(buffer, w.pos, w.offset, runlen, o))
        c2 == embeddedice_handshake(env, w.n + 2, 1000)
        resp == IF Len(w.chunks) + 1 >= env.errFrom
                THEN OCL_CMD_ERR ELSE OCL_CMD_DONE
        c3 == embeddedice_receive(env, w.n + 3, resp)
        w1 == [w EXCEPT !.chunks = Append(w.chunks, chunk),
                        !.calls = Append(w.calls, c1)]
        w2 == [w1 EXCEPT !.calls = Append(w1.calls, c2)]
        w3 == [w2 EXCEPT !.calls = Append(w2.calls, c3)]
    IN  IF c1.ret # ERROR_OK THEN WriteReturn(c1.ret, TRUE, w1)
        ELSE IF NotOk(c2.ret) # 0 THEN WriteReturn(NotOk(c2.ret), TRUE, w2)
        ELSE IF NotOk(c3.ret) # 0 THEN WriteReturn(NotOk(c3.ret), TRUE, w3)
        ELSE IF resp # OCL_CMD_DONE
        THEN WriteReturn(ERROR_FLASH_OPERATION_FAILED, TRUE, w3)
        ELSE WriteLoop([w3 EXCEPT !.count = w.count - runlen,
                                  !.offset = w.offset + runlen,
                                  !.pos = IF runlen > 0 THEN w.pos + runlen
                                          ELSE w.pos,
                                  !.n = w.n + 3],
                       o, buffer, env)

ocl_write(b, o, tstate, buffer, offset, count, env) ==
    LET w0 == [count |-> count, offset |-> offset, pos |-> 1, n |-> 0,
               calls |-> <<>>, chunks |-> <<>>]
    IN  IF o.buflen = 0 \/ o.bufalign = 0
        THEN WriteReturn(ERROR_FLASH_BANK_NOT_PROBED, TRUE, w0)
        ELSE IF tstate # TARGET_RUNNING
        THEN WriteReturn(ERROR_TARGET_NOT_RUNNING, TRUE, w0)
        ELSE WriteLoop(w0, o, buffer, env)

(***************************************************************************)
(* ocl_auto_probe.                                                         *)
(***************************************************************************)
ocl_auto_probe(o) ==
    IF o.buflen = 0 \/ o.bufalign = 0
    THEN ERROR_FLASH_BANK_NOT_PROBED
    ELSE ERROR_OK

(***************************************************************************)
(***************************************************************************)
(* The FreeBSD GPIO bit-bang adapter driver (freebsdgpio.c).  gpio holds   *)
(* the file's static variables: gpio.num[l] is <l>_gpio and gpio.handle[l] *)
(* is <l>_handle.  A call of libgpio is recorded as [fn, line, handle,     *)
(* pin]: line names the <l>_handle variable passed as the handle.           *)
(***************************************************************************)
ERROR_JTAG_INIT_FAILED == 0 - 100

Lines == <<"tck", "tms", "tdi", "tdo", "trst", "srst", "swclk", "swdio">>

LineSet == {Lines[k] : k \in 1..Len(Lines)}

GpioCall(fn, g, l, pin) ==
    [fn |-> fn, line |-> l, handle |-> g.handle[l], pin |-> pin]

(* the C expression !x *)
Not(x) == IF x = 0 THEN 1 ELSE 0

(* lines 102-126 and 198-202: the statics before any command has run *)
GpioStatics ==
    [num |-> [l \in LineSet |-> 0 - 1],
     handle |-> [l \in LineSet |-> 0 - 1],
     last_swclk |-> 0, last_swdio |-> 0, last_stored |-> FALSE,
     swdio_input |-> FALSE,
     last_tck |-> 0, last_tms |-> 0, last_tdi |-> 0, first_time |-> 0,
     swd_mode |-> FALSE, phase |-> "config"]

is_gpio_valid(n) == n >= 0 /\ n < 10000

(* if (v) gpio_pin_high(<l>_handle, v); else gpio_pin_low(<l>_handle, v); *)
PinWrite(g, l, v) ==
    IF v # 0 THEN GpioCall("gpio_pin_high", g, l, v)
    ELSE GpioCall("gpio_pin_low", g, l, v)

(* a write path that drives the line whether or not its value changed *)
WriteIf_Always(cond, g, l, v) == <<PinWrite(g, l, v)>>

WriteIf(cond, g, l, v) == IF cond THEN <<PinWrite(g, l, v)>> ELSE <<>>

GpioReturn(g, calls, retval) == [g |-> g, calls |-> calls, retval |-> retval]

freebsdgpio_swdio_drive(g, is_output) ==
    LET n == g.num["swdio"]
    IN  GpioReturn([g EXCEPT !.last_stored = FALSE,
                             !.swdio_input = ~is_output],
                   IF is_output
                   THEN <<GpioCall("gpio_pin_input", g, "swdio", n),
                          GpioCall("gpio_pin_high", g, "swdio", n)>>
                   ELSE <<GpioCall("gpio_pin_input", g, "swdio", n)>>,
                   ERROR_OK)

freebsdgpio_swdio_write(g, swclk, swdio) ==
    GpioReturn([g EXCEPT !.last_swdio = swdio, !.last_swclk = swclk,
                         !.last_stored = TRUE],
               WriteIf(~g.swdio_input
                           /\ (~g.last_stored \/ swdio # g.last_swdio),
                       g, "swdio", swdio)
                   \o WriteIf(~g.last_stored \/ swclk # g.last_swclk,
                              g, "swclk", swclk),
               ERROR_OK)

freebsdgpio_write(g, tck, tms, tdi) ==
    IF g.swd_mode THEN freebsdgpio_swdio_write(g, tck, tdi)
    ELSE
    LET g1 == IF g.first_time = 0
              THEN [g EXCEPT !.last_tck = Not(tck), !.last_tms = Not(tms),
                             !.last_tdi = Not(tdi), !.first_time = 1]
              ELSE g
    IN  GpioReturn([g1 EXCEPT !.last_tdi = tdi, !.last_tms = tms,
                              !.last_tck = tck],
                   WriteIf(tdi # g1.last_tdi, g1, "tdi", tdi)
                       \o WriteIf(tms # g1.last_tms, g1, "tms", tms)
                       \o WriteIf(tck # g1.last_tck, g1, "tck", tck),
                   ERROR_OK)

(* assert (1) or deassert (0) the reset lines; both branches go through    *)
(* srst_handle and pass trst where libgpio takes the pin number            *)
freebsdgpio_reset(g, trst, srst) ==
    GpioReturn(g,
               (IF g.handle["srst"] >= 0
                THEN <<GpioCall(IF srst # 0 THEN "gpio_pin_low"
                                ELSE "gpio_pin_high", g, "srst", trst)>>
                ELSE <<>>)
               \o (IF g.handle["trst"] >= 0
                   THEN <<GpioCall(IF trst # 0 THEN "gpio_pin_low"
                                   ELSE "gpio_pin_high", g, "srst", trst)>>
                   ELSE <<>>),
               ERROR_OK)

(* ret is never assigned after its initialisation to -1 *)
setup_gpio(g, l, pin, is_output, init_high) ==
    [ret |-> 0 - 1,
     calls |-> IF is_output
               THEN <<GpioCall("gpio_pin_output", g, l, pin)>>
                    \o (IF init_high
                        THEN <<GpioCall("gpio_pin_high", g, l, pin)>>
                        ELSE <<>>)
               ELSE <<GpioCall("gpio_pin_input", g, l, pin)>>]

freebsdgpio_jtag_mode_possible(g) ==
    \A l \in {"tck", "tms", "tdi", "tdo"} : is_gpio_valid(g.num[l])

freebsdgpio_swd_mode_possible(g) ==
    \A l \in {"swclk", "swdio"} : is_gpio_valid(g.num[l])

(* lines 559-607: is_output and init_high of each line, in source order *)
IsOutput(l) == l # "tdo"

InitHigh(l) == l \in {"tms", "trst", "srst"}

RECURSIVE SetupLines(_, _, _)
SetupLines(g, k, calls) ==
    IF k > Len(Lines)
    THEN GpioReturn(g,
                    IF freebsdgpio_swd_mode_possible(g)
                    THEN Append(calls,
                                [fn |-> IF g.swd_mode THEN "JTAG_TO_SWD"
                                        ELSE "SWD_TO_JTAG",
                                 line |-> "none", handle |-> 0, pin |-> 0])
                    ELSE calls,
                    ERROR_OK)
    ELSE IF g.num[Lines[k]] >= 0
    THEN LET l == Lines[k]
             r == setup_gpio(g, l, g.num[l], IsOutput(l), InitHigh(l))
             g1 == [g EXCEPT !.handle[l] = r.ret]
         IN  IF r.ret < 0
             THEN GpioReturn(g1, calls \o r.calls, ERROR_JTAG_INIT_FAILED)
             ELSE SetupLines(g1, k + 1, calls \o r.calls)
    ELSE SetupLines(g, k + 1, calls)

(* gpioc is what gpio_open(0) returns *)
freebsdgpio_init(g, gpioc) ==
    IF ~freebsdgpio_jtag_mode_possible(g) /\ ~freebsdgpio_swd_mode_possible(g)
    THEN GpioReturn(g, <<>>, ERROR_JTAG_INIT_FAILED)
    ELSE SetupLines([g EXCEPT !.handle = [l \in LineSet |-> gpioc]], 1,
                    <<[fn |-> "gpio_open", line |-> "none",
                       handle |-> gpioc, pin |-> 0]>>)

freebsdgpio_handle_jtag_gpionums(g, nums) ==
    [g EXCEPT !.num["tck"] = nums[1], !.num["tms"] = nums[2],
              !.num["tdi"] = nums[3], !.num["tdo"] = nums[4]]

freebsdgpio_handle_swd_gpionums(g, nums) ==
    [g EXCEPT !.num["swclk"] = nums[1], !.num["swdio"] = nums[2]]

freebsdgpio_handle_jtag_gpionum_srst(g, n) == [g EXCEPT !.num["srst"] = n]

freebsdgpio_handle_jtag_gpionum_trst(g, n) == [g EXCEPT !.num["trst"] = n]

NoCall == [fn |-> "none"]

(***************************************************************************)
(* The state before any command: both drivers configured, nothing called.  *)
(***************************************************************************)
Init ==
    /\ ocl_flash_bank_command
    /\ gpio = GpioStatics
    /\ gop = NoCall
    /\ greq = <<>>

(***************************************************************************)
(* What the link and the loader may do during one call.  A link fault      *)
(* either hits the drain of probe alone or breaks the link from some call  *)
(* on; words the driver never receives are not enumerated.                 *)
(***************************************************************************)
ProbeCalls == 12

EraseCalls == 3

LinkFaults(n) == {{}} \cup {k..n : k \in 1..n}

Responses == {OCL_CMD_DONE, OCL_CMD_ERR}

TargetStates == {TARGET_RUNNING, TARGET_HALTED}

BankBase == 16 * 65536

GarbageSectors ==
    {[offset |-> 0, size |-> 0, is_erased |-> 0, is_protected |-> 0],
     [offset |-> 7, size |-> 5, is_erased |-> 1, is_protected |-> 1]}

(* what a loader may report: no sectors or MaxSectors of them, an even     *)
(* buffer length, and an alignment of 0 or of at least 3                   *)
SectorCounts == {0, MaxSectors}

BufLens == {2 * u : u \in 0..MaxBufUnits}

BufAligns == {0} \cup 3..MaxBufAlign

BufWords == {l + 65536 * a : l \in BufLens, a \in BufAligns}

Heard(fails, resp, n) == resp = OCL_CMD_DONE /\ n \notin fails

(* the indeterminate entries survive only when the table grows and the     *)
(* sector checks return before the table is filled                         *)
GarbageFor(b, fails, resp, size, num_sectors) ==
    IF Heard(fails, resp, ProbeCalls) /\ num_sectors > Len(b.sectors)
       /\ size % num_sectors # 0
    THEN GarbageSectors
    ELSE {CHOOSE g \in GarbageSectors : g.size = 0}

Probe ==
    /\ pc = "idle"
    /\ \E fails \in LinkFaults(ProbeCalls) \cup {{1}} :
       \E resp \in IF 4 \in fails THEN {WordOfInt(0)} ELSE Responses :
       \E w1 \in IF Heard(fails, resp, 6) THEN {BankBase} ELSE {0} :
       \E w2 \in IF Heard(fails, resp, 8) THEN 1..MaxSize ELSE {0} :
       \E w3 \in IF Heard(fails, resp, 10) THEN SectorCounts ELSE {0} :
       \E w4 \in IF Heard(fails, resp, 12) THEN BufWords ELSE {0} :
       \E g \in GarbageFor(bank, fails, resp, w2, w3) :
       \E r \in {ocl_probe(bank, ocl,
                           [fails |-> fails, resp |-> resp,
                            geom |-> <<w1, w2, w3, w4>>, garbage |-> g])} :
          /\ bank' = r.bank
          /\ ocl' = r.ocl
          /\ op' = [fn |-> "probe", retval |-> r.retval, calls |-> r.calls]
    /\ pc' = "done"
    /\ UNCHANGED gpiovars

(* inputs a call never looks at are not enumerated *)
Running(tstate, S) == IF tstate = TARGET_RUNNING THEN S ELSE {0}

(* faulty variant of Erase: a failed erase marks the bank as not probed *)
Erase_Invalidating ==
    /\ pc = "idle"
    /\ \E tstate \in TargetStates :
       \E first \in Running(tstate, 0..MaxSectors) :
       \E last \in Running(tstate, 0..MaxSectors) :
       \E fails \in IF tstate = TARGET_RUNNING
                    THEN LinkFaults(EraseCalls) ELSE {{}} :
       \E resp \in IF 3 \in fails THEN {WordOfInt(0)} ELSE Responses :
       \E r \in {ocl_erase(bank, ocl, tstate, first, last,
                           [fails |-> fails, resp |-> resp])} :
          /\ op' = [fn |-> "erase", retval |-> r.retval, calls |-> r.calls,
                    tstate |-> tstate, first |-> first, last |-> last]
          /\ ocl' = IF r.retval = ERROR_OK THEN ocl
                    ELSE [buflen |-> 0, bufalign |-> 1]
    /\ pc' = "done"
    /\ UNCHANGED <<bank, gpiovars>>

Erase ==
    /\ pc = "idle"
    /\ \E tstate \in TargetStates :
       \E first \in Running(tstate, 0..MaxSectors) :
       \E last \in Running(tstate, 0..MaxSectors) :
       \E fails \in IF tstate = TARGET_RUNNING
                    THEN LinkFaults(EraseCalls) ELSE {{}} :
       \E resp \in IF 3 \in fails THEN {WordOfInt(0)} ELSE Responses :
       \E r \in {ocl_erase(bank, ocl, tstate, first, last,
                           [fails |-> fails, resp |-> resp])} :
          op' = [fn |-> "erase", retval |-> r.retval, calls |-> r.calls,
                 tstate |-> tstate, first |-> first, last |-> last]
    /\ pc' = "done"
    /\ UNCHANGED <<bank, ocl, gpiovars>>

Payload(count) == [i \in 1..count |-> (85 * i) % 256]

(* a link that breaks, or a loader that rejects from some block on *)
WriteFaults ==
    {[fails |-> f, errFrom |-> MaxIter + 1] : f \in LinkFaults(MaxFaultCall)}
    \cup {[fails |-> {}, errFrom |-> j] : j \in 1..MaxIter}

Write ==
    /\ pc = "idle"
    /\ \E tstate \in TargetStates :
       \E offset \in Running(tstate, 0..MaxOffset) :
       \E count \in Running(tstate, 0..MaxCount) :
       \E env \in IF tstate = TARGET_RUNNING THEN WriteFaults
                  ELSE {[fails |-> {}, errFrom |-> MaxIter + 1]} :
       \E r \in {ocl_write(bank, ocl, tstate, Payload(count), offset,
                           count, env)} :
          op' = [fn |-> "write", retval |-> r.retval, calls |-> r.calls,
                 returned |-> r.returned, chunks |-> r.chunks,
                 end_offset |-> r.offset, end_count |-> r.count,
                 tstate |-> tstate, buffer |-> Payload(count),
                 offset |-> offset, count |-> count]
    /\ pc' = "done"
    /\ UNCHANGED <<bank, ocl, gpiovars>>

AutoProbe ==
    /\ pc = "idle"
    /\ op' = [fn |-> "auto_probe", retval |-> ocl_auto_probe(ocl),
              calls |-> <<>>]
    /\ pc' = "done"
    /\ UNCHANGED <<bank, ocl, gpiovars>>

(***************************************************************************)
(* The flash core takes the result; the driver is idle again.              *)
(***************************************************************************)
Return ==
    /\ pc = "done"
    /\ pc' = "idle"
    /\ op' = NoOp
    /\ UNCHANGED <<bank, ocl, gpiovars>>

Next == Probe \/ Erase \/ Write \/ AutoProbe \/ Return

Spec == Init /\ [][Next]_vars

(***************************************************************************)
(* The GPIO adapter driver's entry points.  The gpio number commands are   *)
(* config-stage commands; freebsdgpio_init installs the bit-bang interface *)
(* before it checks anything, so write and swdio_drive can be called after *)
(* it whatever it returned.  gop is the call in progress and what it did;  *)
(* greq is the (tck, tms, tdi) of the latest JTAG-mode write.              *)
(***************************************************************************)
Levels == 0..MaxLevel

(* four usable numbers, or a tdo number one past the valid range *)
JtagNums == {<<FirstPin, FirstPin + 1, FirstPin + 2, FirstPin + 3>>,
             <<FirstPin, FirstPin + 1, FirstPin + 2, 10000>>}

SwdNums == {<<FirstPin + 4, FirstPin + 5>>}

SrstNums == {FirstPin + 6}

TrstNums == {FirstPin + 7}

(* gpio_open gives a descriptor or GPIO_INVALID_HANDLE *)
OpenResults == {0 - 1, 3}

JtagGpionums ==
    /\ gpio.phase = "config"
    /\ \E nums \in JtagNums :
          gpio' = freebsdgpio_handle_jtag_gpionums(gpio, nums)
    /\ UNCHANGED <<gop, greq, oclvars>>

SwdGpionums ==
    /\ gpio.phase = "config"
    /\ \E nums \in SwdNums :
          gpio' = freebsdgpio_handle_swd_gpionums(gpio, nums)
    /\ UNCHANGED <<gop, greq, oclvars>>

SrstGpionum ==
    /\ gpio.phase = "config"
    /\ \E n \in SrstNums :
          gpio' = freebsdgpio_handle_jtag_gpionum_srst(gpio, n)
    /\ UNCHANGED <<gop, greq, oclvars>>

TrstGpionum ==
    /\ gpio.phase = "config"
    /\ \E n \in TrstNums :
          gpio' = freebsdgpio_handle_jtag_gpionum_trst(gpio, n)
    /\ UNCHANGED <<gop, greq, oclvars>>

SelectTransport ==
    /\ gpio.phase = "config"
    /\ gpio' = [gpio EXCEPT !.swd_mode = ~gpio.swd_mode]
    /\ UNCHANGED <<gop, greq, oclvars>>

GpioInit ==
    /\ gpio.phase = "config"
    /\ \E gpioc \in OpenResults :
       \E r \in {freebsdgpio_init(gpio, gpioc)} :
          /\ gpio' = [r.g EXCEPT !.phase = "run"]
          /\ gop' = [fn |-> "init", retval |-> r.retval, calls |-> r.calls]
    /\ UNCHANGED <<greq, oclvars>>

GpioWrite ==
    /\ gpio.phase = "run"
    /\ gop = NoCall
    /\ \E tck \in Levels : \E tms \in Levels : \E tdi \in Levels :
       \E r \in {freebsdgpio_write(gpio, tck, tms, tdi)} :
          /\ gpio' = r.g
          /\ gop' = [fn |-> "write", retval |-> r.retval, calls |-> r.calls,
                    tck |-> tck, tms |-> tms, tdi |-> tdi, prev |-> greq]
          /\ greq' = IF gpio.swd_mode THEN greq ELSE <<tck, tms, tdi>>
    /\ UNCHANGED oclvars

GpioSwdioDrive ==
    /\ gpio.phase = "run"
    /\ gop = NoCall
    /\ \E is_output \in BOOLEAN :
       \E r \in {freebsdgpio_swdio_drive(gpio, is_output)} :
          /\ gpio' = r.g
          /\ gop' = [fn |-> "swdio_drive", retval |-> r.retval,
                    calls |-> r.calls, is_output |-> is_output]
    /\ UNCHANGED <<greq, oclvars>>

GpioReset ==
    /\ gpio.phase = "run"
    /\ gop = NoCall
    /\ \E trst \in Levels : \E srst \in Levels :
       \E r \in {freebsdgpio_reset(gpio, trst, srst)} :
          /\ gpio' = r.g
          /\ gop' = [fn |-> "reset", retval |-> r.retval, calls |-> r.calls,
                    trst |-> trst, srst |-> srst]
    /\ UNCHANGED <<greq, oclvars>>

GpioDone ==
    /\ gop # NoCall
    /\ gop' = NoCall
    /\ UNCHANGED <<gpio, greq, oclvars>>

GpioNext ==
    \/ JtagGpionums
    \/ SwdGpionums
    \/ SrstGpionum
    \/ TrstGpionum
    \/ SelectTransport
    \/ GpioInit
    \/ GpioWrite
    \/ GpioSwdioDrive
    \/ GpioReset
    \/ GpioDone

GpioSpec == Init /\ [][GpioNext]_vars

(***************************************************************************)
(* Vocabulary of the properties.                                           *)
(***************************************************************************)
Called(fn) == pc = "done" /\ op.fn = fn

NoFault == [fails |-> {}, resp |-> OCL_CMD_DONE, errFrom |-> MaxIter + 1]

(* call i of the finished operation is a failure the operation must stop   *)
(* at: a link error (the drain of probe is not one, its result is dropped  *)
(* by design) or a response word other than OCL_CMD_DONE                   *)
IsResponse(i) ==
    /\ op.calls[i].fn = "receive"
    /\ op.calls[i].ret = ERROR_OK
    /\ IF op.fn = "probe" THEN i = 4 ELSE TRUE

IsDrain(i) == op.fn = "probe" /\ i = 1

LinkFailure(i) == op.calls[i].ret # ERROR_OK /\ ~IsDrain(i)

Rejected(i) == IsResponse(i) /\ op.calls[i].words[1] # OCL_CMD_DONE

EraseAdmitted(b, o) ==
    ocl_erase(b, o, TARGET_RUNNING, 0, 0, NoFault).calls # <<>>

WriteAdmitted(b, o) ==
    ocl_write(b, o, TARGET_RUNNING, Payload(1), 0, 1, NoFault).calls # <<>>

(***************************************************************************)
(* C1: after a probe that returns an error the bank is unprobed: sector    *)
(* count, buffer length and sector table hold nothing of the failed probe, *)
(* and the next erase and write are rejected as not probed without any     *)
(* transport call.                                                         *)
(***************************************************************************)
C1_FailedProbeLeavesUnprobed ==
    (Called("probe") /\ op.retval # ERROR_OK) =>
        /\ bank.num_sectors = 0
        /\ bank.sectors = <<>>
        /\ ocl.buflen = 0
        /\ ocl_erase(bank, ocl, TARGET_RUNNING, 0, 0, NoFault)
               = OpReturn(ERROR_FLASH_BANK_NOT_PROBED, <<>>)
        /\ ~WriteAdmitted(bank, ocl)

(***************************************************************************)
(* C2: erase, write and auto_probe return bank-not-probed without any      *)
(* transport call whenever buffer_length or buffer_alignment is zero.      *)
(***************************************************************************)
C2_NotProbedWhenNoBuffer ==
    ((Called("erase") \/ Called("write") \/ Called("auto_probe"))
        /\ (ocl.buflen = 0 \/ ocl.bufalign = 0)) =>
        (op.retval = ERROR_FLASH_BANK_NOT_PROBED /\ op.calls = <<>>)

(***************************************************************************)
(* C3: an operation stopped by a failing transport call returns exactly    *)
(* the error value that call produced (a handshake timeout comes back as   *)
(* ERROR_TARGET_TIMEOUT), which differs from the operation-failed error.   *)
(***************************************************************************)
C3_TransportErrorVerbatim ==
    (Called("erase") \/ Called("write") \/ Called("probe")) =>
        \A i \in 1..Len(op.calls) :
            LinkFailure(i) =>
                /\ op.retval = op.calls[i].ret
                /\ op.retval # ERROR_FLASH_OPERATION_FAILED

(***************************************************************************)
(* C4: once a send fails, a handshake times out, a receive fails or a      *)
(* response differs from OCL_CMD_DONE, the operation makes no further      *)
(* transport call; a write does not advance offset and count past the      *)
(* failing block, and every block sent starts where the block acknowledged *)
(* before it ended (nothing re-sent, nothing rolled back).                 *)
(***************************************************************************)
C4_StopAtFirstFailure ==
    (Called("erase") \/ Called("write") \/ Called("probe")) =>
        /\ \A i \in 1..Len(op.calls) :
              (LinkFailure(i) \/ Rejected(i)) => i = Len(op.calls)
        /\ Called("write") =>
              /\ \A k \in 1..(Len(op.chunks) - 1) :
                    /\ op.chunks[k + 1].offset
                           = op.chunks[k].offset + op.chunks[k].runlen
                    /\ op.calls[3 * k].words = <<OCL_CMD_DONE>>
              /\ Len(op.calls) <= 3 * Len(op.chunks)
              /\ (op.chunks # <<>> /\ \E i \in 1..Len(op.calls) :
                                         LinkFailure(i) \/ Rejected(i)) =>
                    /\ op.end_offset = op.chunks[Len(op.chunks)].offset
                    /\ op.end_offset - op.offset = op.count - op.end_count

C4_Witness ==
    /\ Called("write")
    /\ Len(op.chunks) = 2
    /\ Len(op.calls) = 5
    /\ LinkFailure(5)

(***************************************************************************)
(* Flash-block packets of a finished write: block k is sent by transport   *)
(* call 3k - 2; its payload starts at buffer index BlockPos(k).            *)
(***************************************************************************)
Blocks == 1..Len(op.chunks)

BlockPacket(k) == op.calls[3 * k - 2].words

BlockData(k) == SubSeq(BlockPacket(k), 3, Len(BlockPacket(k)) - 1)

BlockPos(k) == 1 + op.chunks[k].offset - op.offset

Min(a, b) == IF a < b THEN a ELSE b

Divides(o) ==
    o.bufalign >= 1 /\ o.bufalign <= o.buflen /\ o.buflen % o.bufalign = 0

Validated(o) == o.buflen > 0 /\ o.buflen % 4 = 0 /\ Divides(o)

FreshBank == [base |-> 0, size |-> 0, num_sectors |-> 0, sectors |-> <<>>]

(***************************************************************************)
(* C5: for buffer_alignment dividing buffer_length, when the loader        *)
(* acknowledges every block the (offset, run length) pairs sent cover      *)
(* [X, X+L) exactly once, in increasing order without gap or overlap, each *)
(* run length is min(remaining, BL - (start mod BA)) and no block has      *)
(* (start mod BA) + length > BL.  X = 0x0FFE, L = 6, BL = BA = 0x1000      *)
(* gives a 2-byte block and then a 4-byte block.                           *)
(***************************************************************************)
C5_Example ==
    LET r == ocl_write(FreshBank, [buflen |-> 4096, bufalign |-> 4096],
                       TARGET_RUNNING, Payload(6), 4094, 6, NoFault)
    IN  /\ r.retval = ERROR_OK
        /\ [k \in 1..Len(r.chunks) |->
               <<r.chunks[k].offset, r.chunks[k].runlen>>]
               = <<<<4094, 2>>, <<4096, 4>>>>

C5_ChunksCoverPayload ==
    /\ C5_Example
    /\ (Called("write") /\ op.retval = ERROR_OK /\ op.returned
            /\ op.tstate = TARGET_RUNNING /\ Divides(ocl)) =>
          /\ Len(op.calls) = 3 * Len(op.chunks)
          /\ (op.count = 0) <=> (op.chunks = <<>>)
          /\ op.chunks # <<>> =>
                /\ op.chunks[1].offset = op.offset
                /\ op.chunks[Len(op.chunks)].offset
                       + op.chunks[Len(op.chunks)].runlen
                       = op.offset + op.count
          /\ \A k \in Blocks :
                LET s == op.chunks[k].offset
                    n == op.chunks[k].runlen
                IN  /\ n = Min(op.offset + op.count - s,
                               ocl.buflen - (s % ocl.bufalign))
                    /\ n >= 1
                    /\ (s % ocl.bufalign) + n <= ocl.buflen
                    /\ k < Len(op.chunks) => op.chunks[k + 1].offset = s + n
                    /\ BlockPacket(k)[1] = BitOr(OCL_FLASH_BLOCK, WordOfInt(n))
                    /\ BlockPacket(k)[2] = WordOfInt(s)

C5_Witness ==
    /\ Called("write")
    /\ op.retval = ERROR_OK
    /\ ocl.buflen = ocl.bufalign
    /\ op.offset % ocl.bufalign = ocl.buflen - 2
    /\ op.count = 6
    /\ Len(op.chunks) = 2
    /\ op.chunks[1].runlen = 2
    /\ op.chunks[2].runlen = 4

(***************************************************************************)
(* C6 as stated: under a validated descriptor no block crosses a           *)
(* buffer-alignment boundary: floor(s / BA) = floor((s + n - 1) / BA).     *)
(***************************************************************************)
C6_NoBlockCrossesAlignment ==
    (Called("write") /\ Validated(ocl)) =>
        \A k \in Blocks :
            LET s == op.chunks[k].offset
                n == op.chunks[k].runlen
            IN  n >= 1 => s \div ocl.bufalign = (s + n - 1) \div ocl.bufalign

(***************************************************************************)
(* C6 amended: under a validated descriptor a block of n >= 1 bytes at s   *)
(* ends within buffer_length bytes of the alignment boundary at or below   *)
(* s, so it crosses at most buffer_length / buffer_alignment - 1           *)
(* boundaries: none when buffer_alignment = buffer_length.                 *)
(***************************************************************************)
C6_BlockWithinBufferWindow ==
    (Called("write") /\ Validated(ocl)) =>
        \A k \in Blocks :
            LET s == op.chunks[k].offset
                n == op.chunks[k].runlen
                crossed == (s + n - 1) \div ocl.bufalign - s \div ocl.bufalign
            IN  /\ n >= 1
                /\ crossed <= ocl.buflen \div ocl.bufalign - 1
                /\ ocl.bufalign = ocl.buflen => crossed = 0

C6_Witness ==
    /\ Called("write")
    /\ Validated(ocl)
    /\ ocl.bufalign > 1
    /\ ocl.bufalign < ocl.buflen
    /\ \E k \in Blocks :
          (op.chunks[k].offset + op.chunks[k].runlen - 1) \div ocl.bufalign
              = op.chunks[k].offset \div ocl.bufalign + 1

(***************************************************************************)
(* C7: a block of n >= 1 bytes packed from byte offset                     *)
(* o = (offset mod buffer_alignment) mod 4 has exactly ceil((o + n) / 4)   *)
(* data words; payload byte i sits in byte lane (o + i) mod 4 of data word *)
(* floor((o + i) / 4); every other lane is 0xFF.                           *)
(***************************************************************************)
C7_PackedLanes ==
    Called("write") =>
        \A k \in Blocks :
            LET s == op.chunks[k].offset
                n == op.chunks[k].runlen
                o == (s % ocl.bufalign) % 4
                data == BlockData(k)
            IN  n >= 1 =>
                  /\ Len(data) = (o + n + 3) \div 4
                  /\ \A w \in 1..Len(data) : \A l \in 0..3 :
                        LET i == 4 * (w - 1) + l - o
                        IN  data[w][l + 1] =
                               IF i >= 0 /\ i < n
                               THEN op.buffer[BlockPos(k) + i] ELSE 255

C7_Witness ==
    /\ Called("write")
    /\ \E k \in Blocks :
          /\ (op.chunks[k].offset % ocl.bufalign) % 4 = 1
          /\ op.chunks[k].runlen = 6
          /\ Len(BlockData(k)) = 2
          /\ BlockData(k)[1][1] = 255
          /\ BlockData(k)[2][4] = 255
          /\ BlockData(k)[2][3] # 255

(***************************************************************************)
(* C8: every flash-block packet is [opcode | run length, offset, data      *)
(* words ..., checksum], and the checksum is OCL_CHKS_INIT XORed with      *)
(* every data word of the block, a partly filled last word included, and   *)
(* with nothing else.                                                      *)
(***************************************************************************)
RECURSIVE XorAll(_, _)
XorAll(acc, words) ==
    IF words = <<>> THEN acc
    ELSE XorAll(BitXor(acc, Head(words)), Tail(words))

C8_ChecksumOverDataWords ==
    Called("write") =>
        \A k \in Blocks :
            LET pkt == BlockPacket(k)
            IN  /\ Len(pkt) >= 3
                /\ op.calls[3 * k - 2].fn = "send"
                /\ pkt[1] = BitOr(OCL_FLASH_BLOCK,
                                  WordOfInt(op.chunks[k].runlen))
                /\ pkt[2] = WordOfInt(op.chunks[k].offset)
                /\ pkt[Len(pkt)] = XorAll(OCL_CHKS_INIT, BlockData(k))

C8_Witness ==
    /\ Called("write")
    /\ \E k \in Blocks :
          /\ Len(BlockData(k)) = 2
          /\ BlockData(k)[2][4] = 255
          /\ BlockData(k)[2][1] # 255
          /\ BlockPacket(k)[Len(BlockPacket(k))]
                 # BitXor(OCL_CHKS_INIT, BlockData(k)[1])

(***************************************************************************)
(* C9: when every transport call succeeds and the loader answers           *)
(* OCL_CMD_DONE, probe returns ERROR_FLASH_BANK_INVALID exactly when the   *)
(* reported geometry has sector_count = 0, total_size mod sector_count #   *)
(* 0, buffer_length = 0, buffer_alignment > buffer_length, buffer_length   *)
(* mod buffer_alignment # 0 or buffer_length mod 4 # 0 (an alignment       *)
(* reported as 0 counting, and being stored, as 1), and ERROR_OK           *)
(* otherwise; after every successful probe the descriptor is validated.    *)
(***************************************************************************)
ProbeHeardAll ==
    /\ Called("probe")
    /\ Len(op.calls) = ProbeCalls
    /\ \A i \in 2..ProbeCalls : op.calls[i].ret = ERROR_OK
    /\ op.calls[4].words = <<OCL_CMD_DONE>>

Reported ==
    LET w == op.calls[12].words[1]
    IN  [base |-> WordVal(op.calls[6].words[1]),
         size |-> WordVal(op.calls[8].words[1]),
         sector_count |-> WordVal(op.calls[10].words[1]),
         buffer_length |-> w[1] + 256 * w[2],
         buffer_alignment |-> w[3] + 256 * w[4]]

C9_ProbeValidation ==
    /\ ProbeHeardAll =>
          LET g == Reported
              ba == IF g.buffer_alignment = 0 THEN 1 ELSE g.buffer_alignment
              sectors_bad ==
                  \/ g.sector_count = 0
                  \/ g.size % g.sector_count # 0
              buffer_bad ==
                  \/ g.buffer_length = 0
                  \/ ba > g.buffer_length
                  \/ g.buffer_length % ba # 0
                  \/ g.buffer_length % 4 # 0
          IN  /\ op.retval = IF sectors_bad \/ buffer_bad
                             THEN ERROR_FLASH_BANK_INVALID ELSE ERROR_OK
              /\ ~sectors_bad =>
                    ocl = [buflen |-> g.buffer_length, bufalign |-> ba]
    /\ (Called("probe") /\ op.retval = ERROR_OK) =>
          (ProbeHeardAll /\ Validated(ocl))

C9_Witness ==
    /\ ProbeHeardAll
    /\ op.retval = ERROR_FLASH_BANK_INVALID
    /\ Reported.sector_count # 0
    /\ Reported.size % Reported.sector_count = 0
    /\ Reported.buffer_length % 4 # 0
    /\ Reported.buffer_alignment >= 1
    /\ Reported.buffer_alignment <= Reported.buffer_length
    /\ Reported.buffer_length % Reported.buffer_alignment = 0

(***************************************************************************)
(* C10: whenever the bank is populated (sector_count > 0), total_size is   *)
(* divisible by sector_count and the sector table has sector_count entries *)
(* of size total_size / sector_count at offsets i * that size, erased and  *)
(* protected unknown; 0x10000 bytes in 16 sectors are 16 sectors of 0x1000 *)
(* at 0, 0x1000, ..., 0xF000.                                              *)
(***************************************************************************)
C10_Example ==
    LET t == SectorTable(65536, 16)
    IN  /\ Len(t) = 16
        /\ \A i \in 1..16 : t[i].offset = (i - 1) * 4096 /\ t[i].size = 4096

C10_SectorsPartitionBank ==
    /\ C10_Example
    /\ bank.num_sectors > 0 =>
          /\ bank.size % bank.num_sectors = 0
          /\ Len(bank.sectors) = bank.num_sectors
          /\ \A i \in 1..Len(bank.sectors) :
                bank.sectors[i] =
                    [offset |-> (i - 1) * (bank.size \div bank.num_sectors),
                     size |-> bank.size \div bank.num_sectors,
                     is_erased |-> 0 - 1, is_protected |-> 0 - 1]

(***************************************************************************)
(* C11: an admitted erase(first, last) sends exactly one command packet,   *)
(* the one-word [OCL_ERASE_ALL] iff first = 0 and last = num_sectors - 1   *)
(* and the three-word [OCL_ERASE_BLOCK, first, last] otherwise; erase(0,   *)
(* 15) on a 16-sector bank sends a single OCL_ERASE_ALL.                   *)
(***************************************************************************)
Sends == {i \in 1..Len(op.calls) : op.calls[i].fn = "send"}

C11_Example ==
    LET r == ocl_erase([FreshBank EXCEPT !.num_sectors = 16],
                       [buflen |-> 4096, bufalign |-> 4096],
                       TARGET_RUNNING, 0, 15, NoFault)
    IN  /\ r.retval = ERROR_OK
        /\ {i \in 1..Len(r.calls) : r.calls[i].fn = "send"} = {1}
        /\ r.calls[1].words = <<OCL_ERASE_ALL>>

C11_OneErasePacket ==
    /\ C11_Example
    /\ Called("erase") =>
          /\ (op.calls # <<>>) <=>
                 (bank.num_sectors # 0 /\ op.tstate = TARGET_RUNNING)
          /\ op.calls # <<>> =>
                /\ Sends = {1}
                /\ op.calls[1].words =
                       IF op.first = 0 /\ op.last = bank.num_sectors - 1
                       THEN <<OCL_ERASE_ALL>>
                       ELSE <<OCL_ERASE_BLOCK, WordOfInt(op.first),
                              WordOfInt(op.last)>>

C11_Witness ==
    /\ Called("erase")
    /\ bank.num_sectors = 2
    /\ op.first = 0
    /\ op.last = 1
    /\ op.retval = ERROR_OK
    /\ op.calls[1].words = <<OCL_ERASE_ALL>>

(***************************************************************************)
(* C12: with the target not running, erase and write on a probed bank      *)
(* return ERROR_TARGET_NOT_RUNNING without any transport call and without  *)
(* changing the bank; on a bank that is not probed (buffer_length or       *)
(* buffer_alignment zero) and a target not running they report             *)
(* ERROR_FLASH_BANK_NOT_PROBED; probe makes no target-state check.  A bank *)
(* counts as probed when it has sectors and a non-zero buffer descriptor.  *)
(***************************************************************************)
NotProbed(o) == o.buflen = 0 \/ o.bufalign = 0

C12_NotRunningRejected ==
    [][(pc = "idle" /\ pc' = "done") =>
          /\ (op'.fn \in {"erase", "write"}
                  /\ op'.tstate # TARGET_RUNNING) =>
                /\ op'.calls = <<>>
                /\ bank' = bank
                /\ ocl' = ocl
                /\ op'.retval \in {ERROR_FLASH_BANK_NOT_PROBED,
                                    ERROR_TARGET_NOT_RUNNING}
                /\ NotProbed(ocl) =>
                      op'.retval = ERROR_FLASH_BANK_NOT_PROBED
                /\ (~NotProbed(ocl) /\ bank.num_sectors > 0) =>
                      op'.retval = ERROR_TARGET_NOT_RUNNING
          /\ op'.fn = "probe" =>
                (op'.calls # <<>> /\ op'.retval # ERROR_TARGET_NOT_RUNNING)
      ]_vars

(***************************************************************************)
(* C13: when every transport call succeeds the response word alone decides *)
(* the result: erase returns ERROR_OK iff its one response word is         *)
(* OCL_CMD_DONE, write returns ERROR_OK iff the response to every block is *)
(* OCL_CMD_DONE, and any other response to probe, erase-all, erase-block   *)
(* or flash-block gives ERROR_FLASH_OPERATION_FAILED.                      *)
(***************************************************************************)
AllCallsOk ==
    /\ op.calls # <<>>
    /\ \A i \in 1..Len(op.calls) : IsDrain(i) \/ op.calls[i].ret = ERROR_OK

ResultFor(done) ==
    IF done THEN ERROR_OK ELSE ERROR_FLASH_OPERATION_FAILED

C13_ResponseDecides ==
    /\ (Called("erase") /\ AllCallsOk) =>
          /\ Len(op.calls) = EraseCalls
          /\ op.retval = ResultFor(op.calls[3].words = <<OCL_CMD_DONE>>)
    /\ (Called("write") /\ AllCallsOk /\ op.returned) =>
          /\ Len(op.calls) = 3 * Len(op.chunks)
          /\ op.retval = ResultFor(\A k \in Blocks :
                                      op.calls[3 * k].words = <<OCL_CMD_DONE>>)
    /\ (Called("probe") /\ AllCallsOk) =>
          /\ Len(op.calls) >= 4
          /\ op.calls[4].words # <<OCL_CMD_DONE>> =>
                op.retval = ERROR_FLASH_OPERATION_FAILED

C13_Witness ==
    /\ Called("erase")
    /\ AllCallsOk
    /\ op.calls[1].words[1] = OCL_ERASE_BLOCK
    /\ op.calls[3].words = <<OCL_CMD_ERR>>
    /\ op.retval = ERROR_FLASH_OPERATION_FAILED

(***************************************************************************)
(* C14: the transport calls of probe are, in this order: one receive that  *)
(* drains a stale word (its result never aborts probe), the send of        *)
(* [OCL_PROBE], a handshake with timeout 1000, the receive of the response *)
(* word and, only if that word is OCL_CMD_DONE, four times a handshake     *)
(* with timeout 0 followed by the receive of one word; the four words go   *)
(* to base, size, num_sectors and, split into low and high 16 bits, to     *)
(* buflen and bufalign.                                                    *)
(***************************************************************************)
CallShape(i) == <<op.calls[i].fn, op.calls[i].timeout>>

C14_ProbeCallOrder ==
    Called("probe") =>
        LET n == Len(op.calls)
        IN  /\ n >= 2 /\ n <= ProbeCalls
            /\ op.calls[1].fn = "receive"
            /\ op.calls[2].fn = "send" /\ op.calls[2].words = <<OCL_PROBE>>
            /\ n >= 3 => CallShape(3) = <<"handshake", 1000>>
            /\ n >= 4 => op.calls[4].fn = "receive"
            /\ n >= 5 => op.calls[4].words = <<OCL_CMD_DONE>>
            /\ \A i \in 5..n :
                  CallShape(i) = IF i % 2 = 1 THEN <<"handshake", 0>>
                                 ELSE <<"receive", 0>>
            /\ \A i \in 2..n : (op.calls[i].ret = ERROR_OK /\ i < ProbeCalls
                                   /\ (i = 4 => ~Rejected(4))) => n > i
            /\ (n = ProbeCalls /\ AllCallsOk) =>
                  /\ bank.base = Reported.base
                  /\ bank.size = Reported.size
                  /\ bank.num_sectors = Reported.sector_count
                  /\ ocl.buflen = Reported.buffer_length
                  /\ \/ ocl.bufalign = Reported.buffer_alignment
                     \/ Reported.buffer_alignment = 0 /\ ocl.bufalign = 1

C14_Witness ==
    /\ Called("probe")
    /\ Len(op.calls) = ProbeCalls
    /\ op.calls[1].ret # ERROR_OK
    /\ op.retval = ERROR_OK
    /\ bank.base = BankBase
    /\ bank.num_sectors = MaxSectors
    /\ ocl.buflen = 8
    /\ ocl.bufalign = 4

(***************************************************************************)
(* C15: erase and write never change the bank or the buffer descriptor:    *)
(* base, size, num_sectors, every sector entry, buflen and bufalign are    *)
(* the same before and after every erase or write, successful or failed;   *)
(* only probe writes them.                                                 *)
(***************************************************************************)
C15_OnlyProbeWritesBank ==
    [][/\ (pc = "idle" /\ pc' = "done" /\ op'.fn \in {"erase", "write"}) =>
              (bank' = bank /\ ocl' = ocl)
       /\ (bank' # bank \/ ocl' # ocl) => op'.fn = "probe"
      ]_vars

C15_Witness ==
    /\ Called("erase")
    /\ op.retval = ERROR_FLASH_OPERATION_FAILED
    /\ bank.num_sectors > 0
    /\ bank.sectors = SectorTable(bank.size, bank.num_sectors)
    /\ Validated(ocl)

(***************************************************************************)
(* C16: the transport calls are strictly request/response: each send of a  *)
(* command packet is followed by one handshake and then one receive of the *)
(* response word, and a further send comes only after that receive         *)
(* delivered OCL_CMD_DONE, so at most one command is outstanding; every    *)
(* handshake of erase and write has the timeout 1000, and the timeout 0 is *)
(* used only by the four geometry reads of probe.                          *)
(***************************************************************************)
C16_RequestResponse ==
    (Called("erase") \/ Called("write") \/ Called("probe")) =>
        LET n == Len(op.calls)
        IN  /\ \A i \in Sends :
                  /\ op.calls[i].ret = ERROR_OK => n >= i + 1
                  /\ n >= i + 1 => CallShape(i + 1) = <<"handshake", 1000>>
                  /\ (n >= i + 1 /\ op.calls[i + 1].ret = ERROR_OK) =>
                        n >= i + 2
                  /\ n >= i + 2 =>
                        /\ op.calls[i + 2].fn = "receive"
                        /\ Len(op.calls[i + 2].words) <= 1
                  /\ n >= i + 3 =>
                        /\ op.calls[i + 2].words = <<OCL_CMD_DONE>>
                        /\ op.fn # "probe" => i + 3 \in Sends
                  /\ \A j \in Sends : j > i => j >= i + 3
            /\ op.fn # "write" => Cardinality(Sends) <= 1
            /\ \A i \in 1..n :
                  (op.calls[i].fn = "handshake" /\ op.calls[i].timeout = 0)
                      => (op.fn = "probe" /\ i \in {5, 7, 9, 11})
            /\ \A i \in 1..n :
                  op.calls[i].fn = "handshake" =>
                      op.calls[i].timeout =
                          IF op.fn = "probe" /\ i > 3 THEN 0 ELSE 1000

C16_Witness ==
    /\ Called("write")
    /\ op.retval = ERROR_OK
    /\ Sends = {1, 4}
    /\ Len(op.calls) = 6
    /\ CallShape(5) = <<"handshake", 1000>>

(***************************************************************************)
(* C17: in every reachable state, a write that passes its not-probed and   *)
(* target-running checks terminates when the loader acknowledges every     *)
(* block: each run length is at least 1 and at most the remaining count,   *)
(* so the remaining count strictly decreases to 0.                         *)
(***************************************************************************)
Remaining(k) == op.count - (op.chunks[k].offset - op.offset)

AllAcknowledged ==
    /\ AllCallsOk
    /\ Len(op.calls) = 3 * Len(op.chunks)
    /\ \A k \in Blocks : op.calls[3 * k].words = <<OCL_CMD_DONE>>

C17_WriteTerminates ==
    (Called("write") /\ op.calls # <<>>) =>
        /\ \A k \in Blocks :
              /\ op.chunks[k].runlen >= 1
              /\ op.chunks[k].runlen <= Remaining(k)
        /\ AllAcknowledged => (op.returned /\ op.end_count = 0)

(***************************************************************************)
(* C18: in every reachable state, in a write that passes its not-probed    *)
(* and target-running checks every word index written in the staging       *)
(* buffer is smaller than the allocated buflen / 4 + 3 words and the       *)
(* length passed to send does not exceed it.  The checksum word is the     *)
(* last and highest word written, at index length - 1.                     *)
(***************************************************************************)
C18_StagingBufferBound ==
    (Called("write") /\ op.calls # <<>>) =>
        \A k \in Blocks : Len(BlockPacket(k)) <= AllocWords(ocl)

(***************************************************************************)
(* The bit-bang writes of the GPIO adapter                                 *)
(***************************************************************************)
JtagWritten == gop.fn = "write" /\ ~gpio.swd_mode

(* the value requested for a line by the call under observation, and by    *)
(* the JTAG write before it                                                *)
Requested(l) ==
    IF l = "tck" THEN gop.tck ELSE IF l = "tms" THEN gop.tms ELSE gop.tdi

Previous(l) ==
    IF l = "tck" THEN gop.prev[1]
    ELSE IF l = "tms" THEN gop.prev[2] ELSE gop.prev[3]

NeedsWrite(l) == gop.prev = <<>> \/ Requested(l) # Previous(l)

WriteOrder == <<"tdi", "tms", "tck">>

(* C19: in JTAG mode a write call drives a line exactly when it is the     *)
(* first call or the line's requested value differs from the one requested *)
(* by the previous call; the lines driven appear in the order TDI, TMS,    *)
(* TCK, each through its own handle and to the requested level; and after  *)
(* the call the remembered state is the requested (tck, tms, tdi).         *)
C19_WriteOnlyChangedLines ==
    JtagWritten =>
        /\ [i \in 1..Len(gop.calls) |-> gop.calls[i].line]
               = SelectSeq(WriteOrder, NeedsWrite)
        /\ \A i \in 1..Len(gop.calls) :
               gop.calls[i].fn = IF Requested(gop.calls[i].line) # 0
                                 THEN "gpio_pin_high" ELSE "gpio_pin_low"
        /\ gpio.last_tck = gop.tck
        /\ gpio.last_tms = gop.tms
        /\ gpio.last_tdi = gop.tdi
        /\ gop.retval = ERROR_OK

(* a later call that changes TMS and TCK but not TDI: two writes, TMS      *)
(* before TCK                                                              *)
C19_Witness ==
    /\ JtagWritten
    /\ gop.prev = <<0, 0, 1>>
    /\ <<gop.tck, gop.tms, gop.tdi>> = <<1, 1, 1>>
    /\ Len(gop.calls) = 2
    /\ gop.calls[1].line = "tms"
    /\ gop.calls[2].line = "tck"

(* the level requested for the line a bit-bang write drives: in SWD mode   *)
(* freebsdgpio_write hands tck to SWCLK and tdi to SWDIO                   *)
LevelFor(l) ==
    IF l \in {"tck", "swclk"} THEN gop.tck
    ELSE IF l = "tms" THEN gop.tms ELSE gop.tdi

(* C20: every GPIO write of a bit-bang write call names the configured pin *)
(* number of the line it drives and sets it to the requested level, so no  *)
(* pin other than the configured ones is driven (stated for lines that     *)
(* have been given a pin number).                                          *)
C20_WritesTargetConfiguredPins ==
    gop.fn = "write" =>
        \A i \in 1..Len(gop.calls) :
            is_gpio_valid(gpio.num[gop.calls[i].line]) =>
            /\ gop.calls[i].pin = gpio.num[gop.calls[i].line]
            /\ gop.calls[i].fn = IF LevelFor(gop.calls[i].line) # 0
                                  THEN "gpio_pin_high" ELSE "gpio_pin_low"

(***************************************************************************)
(* Initialisation of the GPIO adapter                                      *)
(***************************************************************************)
ModePossible ==
    freebsdgpio_jtag_mode_possible(gpio) \/ freebsdgpio_swd_mode_possible(gpio)

(* some call of the observed operation is fn on the pin configured for l *)
Issued(fn, l) ==
    \E i \in 1..Len(gop.calls) :
        /\ gop.calls[i].fn = fn
        /\ gop.calls[i].line = l
        /\ gop.calls[i].pin = gpio.num[l]

(* C21: freebsdgpio_init fails with ERROR_JTAG_INIT_FAILED when neither    *)
(* tck/tms/tdi/tdo nor swclk/swdio are all valid numbers, succeeds with    *)
(* ERROR_OK when one of the two groups is, and on success has made TDO an  *)
(* input, every other configured line an output, and TMS, TRST and SRST    *)
(* high.                                                                   *)
C21_InitResult ==
    gop.fn = "init" =>
        /\ ~ModePossible => gop.retval = ERROR_JTAG_INIT_FAILED
        /\ ModePossible => gop.retval = ERROR_OK
        /\ gop.retval = ERROR_OK =>
               \A l \in LineSet :
                   gpio.num[l] >= 0 =>
                       /\ l = "tdo" => Issued("gpio_pin_input", l)
                       /\ l # "tdo" => Issued("gpio_pin_output", l)
                       /\ l \in {"tms", "trst", "srst"}
                              => Issued("gpio_pin_high", l)

(***************************************************************************)
(* The SWD data line                                                       *)
(***************************************************************************)
(* the lines a call drove, in the order of the calls *)
LinesOf(calls) == [i \in 1..Len(calls) |-> calls[i].line]

(* the libgpio functions a call applied to SWDIO *)
SwdioFns(calls) ==
    {calls[i].fn : i \in {j \in 1..Len(calls) : calls[j].line = "swdio"}}

(* C22: swdio_drive(true) makes SWDIO an output and swdio_drive(false) an  *)
(* input, and either forgets the cached line state; a following            *)
(* swdio_write writes SWDIO, unless it is an input, when nothing is cached *)
(* or its value differs from the cached one, then SWCLK under the same     *)
(* rule, and caches what was requested.                                    *)
C22_SwdioDriveAndWrite ==
    [][ /\ (gop = NoCall /\ gop'.fn = "swdio_drive") =>
              /\ gop'.is_output
                     => /\ "gpio_pin_output" \in SwdioFns(gop'.calls)
                        /\ "gpio_pin_input" \notin SwdioFns(gop'.calls)
              /\ ~gop'.is_output
                     => /\ "gpio_pin_input" \in SwdioFns(gop'.calls)
                        /\ "gpio_pin_output" \notin SwdioFns(gop'.calls)
              /\ gpio'.last_stored = FALSE
              /\ gpio'.swdio_input = ~gop'.is_output
        /\ (gop = NoCall /\ gop'.fn = "write" /\ gpio.swd_mode) =>
              /\ LinesOf(gop'.calls) =
                     (IF /\ ~gpio.swdio_input
                         /\ (~gpio.last_stored \/ gop'.tdi # gpio.last_swdio)
                      THEN <<"swdio">> ELSE <<>>)
                     \o (IF ~gpio.last_stored \/ gop'.tck # gpio.last_swclk
                         THEN <<"swclk">> ELSE <<>>)
              /\ gpio'.last_stored
              /\ gpio'.last_swdio = gop'.tdi
              /\ gpio'.last_swclk = gop'.tck
      ]_vars

(***************************************************************************)
(* The reset lines                                                         *)
(***************************************************************************)
(* the calls of the observed reset that went through l's handle *)
ResetCalls(l) ==
    SelectSeq(gop.calls, LAMBDA c : c.line = l)

Asserted(l) == IF l = "srst" THEN gop.srst # 0 ELSE gop.trst # 0

(* C23: freebsdgpio_reset drives each configured reset line, and only      *)
(* those, on its own pin: low when the line's argument is 1 and high when  *)
(* it is 0, SRST and TRST independently; it returns ERROR_OK.              *)
C23_ResetActiveLow ==
    gop.fn = "reset" =>
        /\ gop.retval = ERROR_OK
        /\ \A i \in 1..Len(gop.calls) : gop.calls[i].line \in {"srst", "trst"}
        /\ \A l \in {"srst", "trst"} :
               IF gpio.num[l] >= 0
               THEN ResetCalls(l) =
                        <<[fn |-> IF Asserted(l) THEN "gpio_pin_low"
                                  ELSE "gpio_pin_high",
                           line |-> l, handle |-> gpio.handle[l],
                           pin |-> gpio.num[l]]>>
               ELSE ResetCalls(l) = <<>>

====
